---- MODULE Spec2Model ----
(***************************************************************************)
(* Model of the loosh-inference-miner core:                                *)
(*   - the admission pipeline of POST /fiber/challenge                     *)
(*     (src/miner/endpoints/fiber.py, src/miner/miner_server.py),          *)
(*   - the readiness poller and the lifespan shutdown                      *)
(*     (src/miner/miner_server.py),                                        *)
(*   - GET /availability (src/miner/endpoints/availability.py),            *)
(*   - the MLTS session layer (src/miner/network/fiber_server.py).         *)
(*                                                                         *)
(* The program is asyncio code: one event loop, cooperative tasks.  Each   *)
(* action below is the code a task runs between two suspension points.     *)
(***************************************************************************)
EXTENDS Integers, Sequences, FiniteSets, TLC

\* ---------------------------------------------------------------- bounds
\* max_concurrent_requests of the configuration under which the model runs
N == 2
\* number of challenges that arrive (ids are arrival indices 1..MaxChallenges)
MaxChallenges == 4
MaxShutdownChallenges == 5
\* challenges that arrive in the lifecycle and session-layer specifications
MaxLifeChallenges == 3
MaxSessChallenges == 1
\* fiber_key_ttl_seconds and fiber_handshake_timeout_seconds, in clock ticks
KeyTtl == 2
HandshakeTimeout == 2
\* the clock runs from 0 to MaxTime
MaxTime == 3
\* symmetric keys 1..MaxKeys, nonces 1..MaxNonces
MaxKeys == 2
MaxNonces == 2
\* requests whose get_fiber_server_dependency calls overlap
MaxFirstRequests == 3
\* largest number of backends in the registry
MaxBackends == 3
MaxInfChallenges == 2
MaxTokens == 3
MaxHandshakeTime == 1

Challenges == 1..MaxChallenges
ShutdownChallenges == 1..MaxShutdownChallenges
LifeChallenges == 1..MaxLifeChallenges
SessChallenges == 1..MaxSessChallenges
InfChallenges == 1..MaxInfChallenges
Keys == 1..MaxKeys
Nonces == 1..MaxNonces
FirstRequests == 1..MaxFirstRequests
Peers == {"v1"}
Uuids == {"u1"}
\* the peers and key uuids of the handshake specification
AllPeers == Peers \cup {"v2"}
AllUuids == Uuids \cup {"u2"}
\* the waiter id of process_pending_requests in the semaphore's waiters
PUMP == 0

\* ------------------------------------------------------- wire-level values
\* A Fernet token: the key it was made with (its MAC), the second it was made
\* in, and its plaintext.  "json" and "json2" are the texts of two JSON
\* objects, "notjson" a plaintext json.loads rejects.
JsonTexts == {"json", "json2"}
Payloads == JsonTexts \cup {"notjson"}
\* the JSON texts of envelopes: "json" carries a prompt, "json2" messages,
\* "json_model" a prompt and a model, "json2_model" messages and a model,
\* "json_bare" neither prompt nor messages, "json_noparams" a prompt without
\* max_tokens, temperature and top_p, "json_meta" a prompt and a metadata
\* object without timing_data, "json_timing" a prompt and metadata whose
\* timing_data is a JSON object, "json_timing_list" a prompt and metadata whose
\* timing_data is a JSON array
EnvelopeTexts ==
  JsonTexts \cup {"json_model", "json2_model", "json_bare", "json_noparams",
                  "json_meta", "json_timing", "json_timing_list"}
NoToken == [key |-> 0, ts |-> 0, data |-> "none"]
Token(k, t, d) == [key |-> k, ts |-> t, data |-> d]

\* The hex string a key exchange carries: the RSA-OAEP wrapping of Fernet key
\* `key` ("ok"), a string that is not hex ("badhex"), hex that the private key
\* does not unwrap ("badrsa"), or a wrapping of bytes that are no Fernet key
\* ("badkey").
EncryptedKeys ==
  [kind : {"ok"}, key : Keys] \cup [kind : {"badhex", "badrsa", "badkey"}, key : {0}]

VARIABLES
  now,                  \* time.time(), in ticks
  symmetric_key_cache,  \* FiberServer._symmetric_key_cache: peer -> uuid -> (key, exp)
  nonce_cache,          \* FiberServer._nonce_cache: nonce -> timestamp
  cleanup_started,      \* FiberServer._cleanup_started
  kx_last,              \* the last exchange_symmetric_key call: its arguments
                        \* (the timestamp as its distance from the clock), its
                        \* return value, whether it logged a replay; seq flips
                        \* at every call
  nonce_seen,           \* history: when each nonce was last recorded
  installed,            \* history: key and time of the last successful handshake
  request_semaphore,    \* _request_semaphore: [value, waiters]
  pending_requests_queue, \* _pending_requests_queue, oldest first
  active_requests,      \* _active_requests
  pump_pc, pump_item,   \* process_pending_requests: position, pending_request_data
  hpc,                  \* receive_encrypted_challenge, per challenge: position
  req,                  \* per challenge: headers and body of the request
  wpc,                  \* process_request task, per challenge: position
  dec,                  \* per challenge: what decrypt_challenge_payload did
  wres,                 \* per challenge: what process_request returned or raised
  fut,                  \* per challenge: state of result_future
  resp,                 \* per challenge: HTTP status sent to the client
  ready_on_arrival,     \* history: _backend_ready when the challenge arrived
  backend_ready,        \* _backend_ready
  health_last,          \* history: how the last health_check call ended
  fiber_server,         \* the global fiber_server of endpoints/fiber.py: 0 is
                        \* None, i > 0 the i-th FiberServer constructed
  dep_pc,               \* get_fiber_server_dependency, per request: position
  dep_got,              \* per request: the FiberServer the dependency returned
  constructed,          \* history: number of FiberServer() constructions
  BACKENDS,             \* miner.core.llms.BACKENDS: registered names, in
                        \* insertion order
  gb,                   \* the last get_backend call: arguments and outcome
  entry_points,         \* the entry points of the group "inference.backends"
                        \* of the installation, each with how its load() ends
  openai_installed,     \* AsyncOpenAI is not None in the adapter modules
  config,               \* the node's Config: test_mode, llm_backend, default_model
  llm_service,          \* router.llm_service of endpoints/inference.py: "unset"
                        \* or the adapter get_backend returned
  adapter_calls,        \* history, per challenge: the chat_completion calls
                        \* made for it, with their arguments
  llm_response,         \* the last chat_completion of an adapter: the variant,
                        \* the server's response and the LLMResponse returned
  pipeline_timing,      \* process_request, per challenge: its local
                        \* pipeline_timing, None or the restored record
  response_metadata,    \* per challenge: response_data['metadata'] of the
                        \* response process_request built
  poller_pc,            \* poll_backend_readiness: position
  shutdown_pc,          \* lifespan after the yield: position
  drain_set,            \* lifespan: the tasks handed to asyncio.gather
  avail                 \* last answer of GET /availability

sessVars == <<now, symmetric_key_cache, nonce_cache, cleanup_started,
              kx_last, nonce_seen, installed>>
admVars == <<request_semaphore, pending_requests_queue, active_requests,
             pump_pc, pump_item>>
chalVars == <<hpc, req, wpc, dec, wres, fut, resp, ready_on_arrival>>
llmVars == <<BACKENDS, gb, entry_points, openai_installed, config, llm_service,
             adapter_calls, llm_response, pipeline_timing, response_metadata>>
depVars == <<fiber_server, dep_pc, dep_got, constructed>>
lifeVars == <<backend_ready, health_last, depVars, llmVars, poller_pc, shutdown_pc, drain_set, avail>>
vars == <<sessVars, admVars, chalVars, lifeVars>>

\* ------------------------------------------------------- dictionaries
Put(d, k, v) == [x \in (DOMAIN d) \cup {k} |-> IF x = k THEN v ELSE d[x]]
Del(d, k) == [x \in (DOMAIN d) \ {k} |-> d[x]]
EmptyDict == [x \in {} |-> 0]

\* ------------------------------------------------------- event loop
\* asyncio.create_task schedules the first step of a task with call_soon: the
\* step runs in the next iteration of the loop, before the callback of any
\* network event or timer that fires later.  Steps that start from such an
\* event (a request arrives, a backend call returns, a sleep ends) therefore
\* wait until every created task has taken its first step.
tasks_started == \A c \in DOMAIN wpc : wpc[c] # "created"

\* ------------------------------------------------------- session layer
fernet_decrypt_any_key(k, tok, ttl) ==
  IF tok.ts + ttl < now THEN "InvalidToken" ELSE tok.data

\* cryptography.fernet.Fernet.decrypt(token, ttl): the token must carry the MAC
\* of this key and be at most ttl seconds old.  Tokens of the model are made at
\* the model's clock, so none carries a timestamp of the future.
fernet_decrypt(k, tok, ttl) ==
  IF tok.key # k THEN "InvalidToken"
  ELSE IF tok.ts + ttl < now THEN "InvalidToken"
  ELSE tok.data

\* json.loads of the decrypted text
json_loads(text) == IF text \in EnvelopeTexts THEN "dict" ELSE "error"

key_never_expired(expiration_time) == FALSE
key_expired_at_boundary(expiration_time) == now >= expiration_time
\* decrypt_challenge_payload: `time.time() > expiration_time`
key_expired(expiration_time) == now > expiration_time

decrypt_challenge_payload_drop_on_invalid(peer, uuid, tok) ==
  LET miss == [ret |-> "None", payload |-> "none", key |-> 0,
               cache |-> symmetric_key_cache]
      drop == [ret |-> "None", payload |-> "none", key |-> 0,
               cache |-> [symmetric_key_cache EXCEPT ![peer] = Del(@, uuid)]] IN
  IF peer \notin DOMAIN symmetric_key_cache THEN miss
  ELSE IF uuid \notin DOMAIN symmetric_key_cache[peer] THEN miss
  ELSE LET e == symmetric_key_cache[peer][uuid] IN
    IF key_expired(e.exp) THEN drop
    ELSE IF fernet_decrypt(e.key, tok, KeyTtl) = "InvalidToken" THEN drop
    ELSE IF json_loads(fernet_decrypt(e.key, tok, KeyTtl)) = "error" THEN miss
    ELSE [ret |-> "dict", payload |-> fernet_decrypt(e.key, tok, KeyTtl),
          key |-> e.key, cache |-> symmetric_key_cache]

\* decrypt_challenge_payload(peer, uuid, tok): the value returned ("dict" or
\* "None"), the text the returned dict was parsed from, the key that
\* decrypted, and the cache it leaves.
decrypt_challenge_payload(peer, uuid, tok) ==
  LET miss == [ret |-> "None", payload |-> "none", key |-> 0,
               cache |-> symmetric_key_cache] IN
  IF peer \notin DOMAIN symmetric_key_cache THEN miss
  ELSE IF uuid \notin DOMAIN symmetric_key_cache[peer] THEN miss
  ELSE LET e == symmetric_key_cache[peer][uuid] IN
    IF key_expired(e.exp)
    THEN [ret |-> "None", payload |-> "none", key |-> 0,
          cache |-> [symmetric_key_cache EXCEPT ![peer] = Del(@, uuid)]]
    ELSE IF fernet_decrypt(e.key, tok, KeyTtl) = "InvalidToken" THEN miss
    ELSE IF json_loads(fernet_decrypt(e.key, tok, KeyTtl)) = "error" THEN miss
    ELSE [ret |-> "dict", payload |-> fernet_decrypt(e.key, tok, KeyTtl),
          key |-> e.key, cache |-> symmetric_key_cache]

\* The response-encryption lookup of process_request: the status it raises
\* (400) or 200 with the token it makes.
encrypt_response(peer, uuid) ==
  IF peer \notin DOMAIN symmetric_key_cache THEN [status |-> 400, token |-> NoToken]
  ELSE IF uuid \notin DOMAIN symmetric_key_cache[peer] THEN [status |-> 400, token |-> NoToken]
  ELSE LET e == symmetric_key_cache[peer][uuid] IN
    IF now > e.exp THEN [status |-> 400, token |-> NoToken]
    ELSE [status |-> 200, token |-> Token(e.key, now, "json")]

\* exchange_symmetric_key: the replay test on the nonce
nonce_replayed(nonce) ==
  /\ nonce \in DOMAIN nonce_cache
  /\ now - nonce_cache[nonce] < HandshakeTimeout

\* the encrypted keys of the handshake specification: two that decrypt to a
\* Fernet key and one that does not decrypt
HandshakeKeys == {e \in EncryptedKeys : e.kind \in {"ok", "badrsa"}}

\* signatures and timestamps a handshake can carry
Signatures == {"sig", "forged"}
Timestamps == {0, MaxTime}

exchange_symmetric_key_verified(enc, uuid, timestamp, nonce, signature, peer) ==
  IF nonce_replayed(nonce)
  THEN [ret |-> FALSE, replay |-> TRUE, nonce_cache |-> nonce_cache,
        cache |-> symmetric_key_cache]
  ELSE IF enc.kind # "ok" \/ signature # "sig" \/ timestamp # now
  THEN [ret |-> FALSE, replay |-> FALSE, nonce_cache |-> Put(nonce_cache, nonce, now),
        cache |-> symmetric_key_cache]
  ELSE [ret |-> TRUE, replay |-> FALSE, nonce_cache |-> Put(nonce_cache, nonce, now),
        cache |-> Put(symmetric_key_cache, peer,
                      Put(IF peer \in DOMAIN symmetric_key_cache
                          THEN symmetric_key_cache[peer] ELSE EmptyDict,
                          uuid, [key |-> enc.key, exp |-> now + KeyTtl]))]

exchange_symmetric_key_reset_peer(enc, uuid, timestamp, nonce, signature, peer) ==
  IF nonce_replayed(nonce)
  THEN [ret |-> FALSE, replay |-> TRUE, nonce_cache |-> nonce_cache,
        cache |-> symmetric_key_cache]
  ELSE IF enc.kind # "ok"
  THEN [ret |-> FALSE, replay |-> FALSE, nonce_cache |-> Put(nonce_cache, nonce, now),
        cache |-> symmetric_key_cache]
  ELSE [ret |-> TRUE, replay |-> FALSE, nonce_cache |-> Put(nonce_cache, nonce, now),
        cache |-> Put(symmetric_key_cache, peer,
                      Put(EmptyDict, uuid, [key |-> enc.key, exp |-> now + KeyTtl]))]

\* FiberServer.exchange_symmetric_key as a function of its arguments and of
\* the state: what it returns, whether it saw a replay, and the nonce window
\* and session cache it leaves.  The replay test comes first; the nonce is
\* recorded before the key is decrypted (bytes.fromhex, the RSA decrypt or
\* Fernet() may raise); timestamp and signature are not read.
exchange_symmetric_key_returns(enc, uuid, timestamp, nonce, signature, peer) ==
  IF nonce_replayed(nonce)
  THEN [ret |-> FALSE, replay |-> TRUE, nonce_cache |-> nonce_cache,
        cache |-> symmetric_key_cache]
  ELSE IF enc.kind # "ok"
  THEN [ret |-> FALSE, replay |-> FALSE, nonce_cache |-> Put(nonce_cache, nonce, now),
        cache |-> symmetric_key_cache]
  ELSE [ret |-> TRUE, replay |-> FALSE, nonce_cache |-> Put(nonce_cache, nonce, now),
        cache |-> Put(symmetric_key_cache, peer,
                      Put(IF peer \in DOMAIN symmetric_key_cache
                          THEN symmetric_key_cache[peer] ELSE EmptyDict,
                          uuid, [key |-> enc.key, exp |-> now + KeyTtl]))]

\* one call of exchange_symmetric_key
exchange_symmetric_key(enc, uuid, timestamp, nonce, signature, peer) ==
  /\ tasks_started
  /\ cleanup_started' = TRUE
  /\ LET r == exchange_symmetric_key_returns(enc, uuid, timestamp, nonce,
                                             signature, peer) IN
     /\ nonce_cache' = r.nonce_cache
     /\ symmetric_key_cache' = r.cache
     /\ nonce_seen' = IF r.replay THEN nonce_seen
                      ELSE [nonce_seen EXCEPT ![nonce] = now]
     /\ installed' = IF r.ret
                     THEN [installed EXCEPT ![peer][uuid] =
                             [key |-> enc.key, at |-> now]]
                     ELSE installed
     /\ kx_last' = [nonce |-> nonce, ret |-> r.ret, replay |-> r.replay,
                    seq |-> 1 - kx_last.seq,
                    peer |-> peer, uuid |-> uuid,
                    key |-> IF r.ret THEN enc.key ELSE 0,
                    timestamp |-> timestamp - now, signature |-> signature]
  /\ UNCHANGED <<now, admVars, chalVars, lifeVars>>

nonce_expired_early(timestamp) == now > timestamp
\* _cleanup_expired_keys: `now - timestamp > fiber_handshake_timeout_seconds`
nonce_expired(timestamp) == now - timestamp > HandshakeTimeout

cleanup_expired_keys_live_iteration ==
  /\ tasks_started
  /\ cleanup_started
  /\ LET kept(p) == {u \in DOMAIN symmetric_key_cache[p] :
                        ~(now > symmetric_key_cache[p][u].exp)}
         peers == {p \in DOMAIN symmetric_key_cache : kept(p) # {}}
     IN symmetric_key_cache' =
          [p \in peers |-> [u \in kept(p) |-> symmetric_key_cache[p][u]]]
  /\ LET old == {m \in DOMAIN nonce_cache : nonce_expired(nonce_cache[m])}
         first == IF old = {} THEN {}
                  ELSE {CHOOSE m \in old : \A x \in old : m <= x}
     IN nonce_cache' = [n \in (DOMAIN nonce_cache) \ first |-> nonce_cache[n]]
  /\ UNCHANGED <<now, cleanup_started, kx_last, nonce_seen, installed,
                 admVars, chalVars, lifeVars>>

\* One pass of the loop body of _cleanup_expired_keys (no await inside it;
\* both loops run over list(...) snapshots of the dictionaries)
cleanup_expired_keys ==
  /\ tasks_started
  /\ cleanup_started
  /\ LET kept(p) == {u \in DOMAIN symmetric_key_cache[p] :
                        ~(now > symmetric_key_cache[p][u].exp)}
         peers == {p \in DOMAIN symmetric_key_cache : kept(p) # {}}
     IN symmetric_key_cache' =
          [p \in peers |-> [u \in kept(p) |-> symmetric_key_cache[p][u]]]
  /\ nonce_cache' = [n \in {m \in DOMAIN nonce_cache : ~nonce_expired(nonce_cache[m])}
                       |-> nonce_cache[n]]
  /\ UNCHANGED <<now, cleanup_started, kx_last, nonce_seen, installed,
                 admVars, chalVars, lifeVars>>

\* The reaper task exists and has not ended: _cleanup_expired_keys is a
\* `while True` loop, and no code calls cancel() on _cleanup_task
reaper_running == cleanup_started

\* time passes
Tick ==
  /\ tasks_started
  /\ now < MaxTime
  /\ now' = now + 1
  /\ UNCHANGED <<symmetric_key_cache, nonce_cache, cleanup_started, kx_last, nonce_seen, installed, admVars, chalVars, lifeVars>>

\* time passes once every challenge has arrived
BurstTick ==
  /\ \A c \in Challenges : hpc[c] # "idle"
  /\ Tick

\* time passes, up to the last tick of the handshake specification
HandshakeTick ==
  /\ now < MaxHandshakeTime
  /\ Tick

\* ------------------------------------------------------- asyncio.Semaphore
\* The semaphore is [value, waiters]; a waiter is the future of one blocked
\* acquire(): who waits, and whether release() has set its result (woken).
\* A woken waiter already owns its permit (release hands it over).
locked(s) == s.value = 0 \/ Len(s.waiters) > 0

wake_up_next(s) ==
  LET idx == {i \in 1..Len(s.waiters) : ~s.waiters[i].woken} IN
  IF idx = {} THEN s
  ELSE LET i == CHOOSE i \in idx : \A j \in idx : i <= j IN
       [value |-> s.value - 1, waiters |-> [s.waiters EXCEPT ![i].woken = TRUE]]

\* release(): `self._value += 1; self._wake_up_next()`
release(s) == wake_up_next([s EXCEPT !.value = @ + 1])

\* acquire() when not locked
take(s) == [s EXCEPT !.value = @ - 1]

\* acquire() when locked: append a future and wait on it
enqueue_waiter(s, who) ==
  [s EXCEPT !.waiters = Append(@, [who |-> who, woken |-> FALSE])]

is_woken(s, who) ==
  \E i \in 1..Len(s.waiters) : s.waiters[i].who = who /\ s.waiters[i].woken

is_waiting(s, who) ==
  \E i \in 1..Len(s.waiters) : s.waiters[i].who = who

\* acquire() resuming after `await fut`
resume_waiter(s, who) ==
  LET r == [s EXCEPT !.waiters = SelectSeq(@, LAMBDA w : w.who # who)] IN
  IF r.value > 0 THEN wake_up_next(r) ELSE r

\* acquire() cancelled while waiting
cancel_waiter(s, who) ==
  LET r == [s EXCEPT !.waiters = SelectSeq(@, LAMBDA w : w.who # who)] IN
  IF is_woken(s, who) THEN release(r) ELSE r

\* ------------------------------------------------------- backend registry
\* names of entry points of the group "inference.backends", a name that no
\* entry point has, and configuration objects
BackendNames == {"llamacpp", "ollama", "vllm"}
RequestedNames == BackendNames \cup {"unknown"}
Configs == {"config_a", "config_b"}

Range(f) == {f[i] : i \in DOMAIN f}

\* what get_backends() can leave in BACKENDS: the entry points that loaded, each
\* name once, in the order they were inserted
Registries ==
  {r \in UNION {[1..n -> BackendNames] : n \in 0..MaxBackends} :
     \A i, j \in DOMAIN r : i # j => r[i] # r[j]}

\* how ep.load() of an entry point ends: the class, or an exception
LoadOutcomes == {"class", "ModuleNotFoundError", "Exception"}

\* the installations: the entry points importlib.metadata lists for the group,
\* each name once
EntryPointLists ==
  {e \in UNION {[1..n -> [name : BackendNames, load : LoadOutcomes]] :
                   n \in 0..MaxBackends} :
     \A i, j \in DOMAIN e : i # j => e[i].name # e[j].name}

PackageEntryPoints ==
  <<[name |-> "llamacpp", load |-> "class"], [name |-> "ollama", load |-> "class"],
    [name |-> "vllm", load |-> "class"]>>

RECURSIVE get_backends_abort_on_failure(_)
get_backends_abort_on_failure(eps) ==
  IF eps = <<>> THEN <<>>
  ELSE IF eps[1].load = "class"
       THEN <<eps[1].name>> \o get_backends_abort_on_failure(Tail(eps))
       ELSE <<>>

\* get_backends(): the entry points in order; one whose load() raises is
\* logged and skipped, one that loads is registered under its name
RECURSIVE get_backends(_)
get_backends(eps) ==
  IF eps = <<>> THEN <<>>
  ELSE IF eps[1].load = "class"
       THEN <<eps[1].name>> \o get_backends(Tail(eps))
       ELSE get_backends(Tail(eps))

\* the adapter's __init__(config): raises ImportError when the openai client
\* is missing, else builds the instance
construct(adapter, cfg, warned) ==
  IF openai_installed
  THEN [kind |-> "instance", adapter |-> adapter, config |-> cfg,
        warned |-> warned]
  ELSE [kind |-> "ImportError: openai is not installed", adapter |-> adapter,
        config |-> "none", warned |-> warned]

NoCall == [called |-> FALSE, name |-> "none", config |-> "none",
           result |-> [kind |-> "none", adapter |-> "none", config |-> "none",
                       warned |-> FALSE]]

\* get_backend(name, cfg): the instance it returns (which adapter, built
\* with which config, after a warning or not) or the error it raises
get_backend(name, cfg) ==
  IF name \notin Range(BACKENDS)
  THEN IF BACKENDS = <<>>
       THEN [kind |-> "ValueError: No backends available", adapter |-> "none",
             config |-> "none", warned |-> FALSE]
       ELSE construct(BACKENDS[1], cfg, TRUE)
  ELSE construct(name, cfg, FALSE)

\* a caller applies get_backend
call_get_backend(name, cfg) ==
  /\ gb' = [called |-> TRUE, name |-> name, config |-> cfg,
            result |-> get_backend(name, cfg)]
  /\ UNCHANGED <<BACKENDS, entry_points, openai_installed, config, llm_service,
                 adapter_calls, llm_response, pipeline_timing,
                 response_metadata, sessVars, admVars,
                 chalVars, backend_ready,
                 health_last, depVars, poller_pc, shutdown_pc, drain_set, avail>>

\* ------------------------------------------------------- adapters
\* a token count the server left null
Null == 0 - 1
TokenCounts == {Null, 0, MaxTokens}

\* what the upstream server answers: choices[0].message.tool_calls present or
\* not, choices[0].finish_reason (or "none"), and the usage block, present or
\* not
NoUsage == [present |-> FALSE, prompt_tokens |-> Null, completion_tokens |-> Null,
            total_tokens |-> Null]
ServerResponses ==
  [tool_calls : BOOLEAN, finish_reason : {"none", "stop", "length"},
   usage : {NoUsage} \cup [present : {TRUE}, prompt_tokens : TokenCounts,
                          completion_tokens : TokenCounts,
                          total_tokens : TokenCounts]]

\* TokenUsage() and LLMResponse(content, tool_calls=None, finish_reason="stop",
\* usage=TokenUsage()) of LLMService.py
TokenUsage == [prompt_tokens |-> 0, completion_tokens |-> 0, total_tokens |-> 0]
LLMResponse(tool_calls, finish_reason, usage) ==
  [tool_calls |-> tool_calls, finish_reason |-> finish_reason, usage |-> usage]

NoResponse ==
  [called |-> FALSE, variant |-> "none",
   response |-> [tool_calls |-> FALSE, finish_reason |-> "none", usage |-> NoUsage],
   result |-> LLMResponse(FALSE, "stop", TokenUsage)]

\* `x or 0`
or_0(x) == IF x = Null THEN 0 ELSE x

\* LlamaCppService.chat_completion from the server's response on
llamacpp_chat_completion(response) ==
  LET finish_reason == IF response.finish_reason = "none" THEN "stop"
                       ELSE response.finish_reason
  IN LLMResponse(response.tool_calls,
                 IF response.tool_calls /\ finish_reason = "stop"
                 THEN "tool_calls" ELSE finish_reason,
                 IF response.usage.present
                 THEN [prompt_tokens |-> or_0(response.usage.prompt_tokens),
                       completion_tokens |-> or_0(response.usage.completion_tokens),
                       total_tokens |-> or_0(response.usage.total_tokens)]
                 ELSE TokenUsage)

\* VLLMService.chat_completion and OllamaService.chat_completion from the
\* server's response on: `return LLMResponse(content=content,
\* tool_calls=tool_calls)`
vllm_chat_completion(response) == LLMResponse(response.tool_calls, "stop", TokenUsage)
ollama_chat_completion(response) == LLMResponse(response.tool_calls, "stop", TokenUsage)

\* an adapter's chat_completion returns after the server answered
chat_completion(variant, response) ==
  /\ llm_response' =
       [called |-> TRUE, variant |-> variant, response |-> response,
        result |-> CASE variant = "llamacpp" -> llamacpp_chat_completion(response)
                     [] variant = "vllm" -> vllm_chat_completion(response)
                     [] variant = "ollama" -> ollama_chat_completion(response)]
  /\ UNCHANGED <<BACKENDS, gb, entry_points, openai_installed, config, llm_service,
                 adapter_calls, pipeline_timing, response_metadata,
                 sessVars, admVars, chalVars, backend_ready,
                 health_last, depVars, poller_pc, shutdown_pc, drain_set, avail>>

\* ------------------------------------------------------- inference
\* InferenceRequest(**decrypted_payload): the fields of the envelope; params
\* tells whether the required max_tokens, temperature and top_p are there
InferenceRequest(text) ==
  [prompt |-> IF text \in {"json", "json_model", "json_noparams", "json_meta",
                           "json_timing", "json_timing_list"}
              THEN "hi" ELSE "none",
   messages |-> IF text \in {"json2", "json2_model"} THEN "msgs" ELSE "none",
   model |-> IF text \in {"json_model", "json2_model"} THEN "peer-suggestion" ELSE "none",
   params |-> text # "json_noparams"]

NoArgs == [messages |-> "none", model |-> "none"]

inference_peer_model(text) ==
  LET request == InferenceRequest(text)
      svc == IF llm_service = "unset"
             THEN get_backend(config.llm_backend, "config_a")
             ELSE [kind |-> "instance", adapter |-> llm_service]
  IN
  IF ~request.params
  THEN [kind |-> "raise", status |-> 500, service |-> llm_service, args |-> NoArgs]
  ELSE IF config.test_mode
  THEN [kind |-> "sleep", status |-> 0, service |-> llm_service, args |-> NoArgs]
  ELSE IF svc.kind # "instance"
  THEN [kind |-> "raise", status |-> 500, service |-> llm_service, args |-> NoArgs]
  ELSE IF request.messages = "none" /\ request.prompt = "none"
  THEN [kind |-> "raise", status |-> 400, service |-> svc.adapter, args |-> NoArgs]
  ELSE [kind |-> "call", status |-> 0, service |-> svc.adapter,
        args |-> [messages |-> IF request.messages # "none" THEN request.messages
                               ELSE "user: " \o request.prompt,
                  model |-> IF request.model # "none" THEN request.model
                            ELSE config.default_model]]

\* process_request from the decrypted payload to its next suspension, through
\* inference(): the envelope is validated (a ValidationError becomes 500 in
\* process_request); in test mode the coroutine sleeps; else router.llm_service
\* is resolved on first use (an error of get_backend becomes 500), an
\* envelope without prompt and messages raises 400, and chat_completion is
\* awaited with the node's default_model
inference(text) ==
  LET request == InferenceRequest(text)
      svc == IF llm_service = "unset"
             THEN get_backend(config.llm_backend, "config_a")
             ELSE [kind |-> "instance", adapter |-> llm_service]
  IN
  IF ~request.params
  THEN [kind |-> "raise", status |-> 500, service |-> llm_service, args |-> NoArgs]
  ELSE IF config.test_mode
  THEN [kind |-> "sleep", status |-> 0, service |-> llm_service, args |-> NoArgs]
  ELSE IF svc.kind # "instance"
  THEN [kind |-> "raise", status |-> 500, service |-> llm_service, args |-> NoArgs]
  ELSE IF request.messages = "none" /\ request.prompt = "none"
  THEN [kind |-> "raise", status |-> 400, service |-> svc.adapter, args |-> NoArgs]
  ELSE [kind |-> "call", status |-> 0, service |-> svc.adapter,
        args |-> [messages |-> IF request.messages # "none" THEN request.messages
                               ELSE "user: " \o request.prompt,
                  model |-> config.default_model]]

\* ------------------------------------------------------- timing envelope
\* decrypted_payload.pop('metadata', None) of an envelope: no metadata
\* ("none"), metadata without timing_data ("no_timing"), with timing_data that
\* is a JSON object ("timing_dict") or a JSON array ("timing_list")
challenge_metadata(text) ==
  CASE text = "json_meta" -> "no_timing"
    [] text = "json_timing" -> "timing_dict"
    [] text = "json_timing_list" -> "timing_list"
    [] OTHER -> "none"

\* the stages a validator's timing_data carries when it reaches the miner
IncomingStages ==
  <<[name |-> "validator_challenge", start |-> 0, end |-> 0],
    [name |-> "validator_send", start |-> 0, end |-> Null]>>
TimingData == [stages |-> IncomingStages]

\* miner.timing.PipelineTiming: an ordered list of named stages; a stage is
\* appended with its start and finished later
from_dict(timing_data) == timing_data.stages
to_dict(stages) == [stages |-> stages]
add_stage(stages, name, t) == Append(stages, [name |-> name, start |-> t, end |-> Null])
finish(stages, i, t) == [stages EXCEPT ![i].end = t]

NoTiming == [restored |-> FALSE, stages |-> <<>>]
NoMetadata == [attached |-> FALSE, timing_data |-> to_dict(<<>>)]

restore_timing_stage_first(text, t) ==
  IF challenge_metadata(text) = "timing_dict"
  THEN [restored |-> TRUE,
        stages |-> <<[name |-> "miner_inference", start |-> t, end |-> Null]>>
                     \o from_dict(TimingData)]
  ELSE NoTiming

\* process_request before the InferenceRequest is built: pipeline_timing is
\* restored from timing_data only when that is a dict, and the
\* miner_inference stage is added to it
restore_timing(text, t) ==
  IF challenge_metadata(text) = "timing_dict"
  THEN [restored |-> TRUE,
        stages |-> add_stage(from_dict(TimingData), "miner_inference", t)]
  ELSE NoTiming

\* process_request after inference returned: the miner_inference stage is
\* finished, the miner_response stage added, and the record serialised into
\* the response's metadata (miner_response is finished after to_dict)
attach_timing(timing, t) ==
  IF timing.restored
  THEN [attached |-> TRUE,
        timing_data |-> to_dict(add_stage(finish(timing.stages, Len(timing.stages), t),
                                          "miner_response", t))]
  ELSE NoMetadata

\* ------------------------------------------------------- challenge handler
NoReq == [peer |-> "none", uuid |-> "none", token |-> NoToken]
NoDec == [ret |-> "none", payload |-> "none", key |-> 0, at |-> 0 - 1]
NoRes == [status |-> 0, token |-> NoToken]
NoFuture == [state |-> "none", value |-> NoRes]

\* asyncio.create_task(...) followed by _active_requests.add(task)
create_task(c) ==
  /\ wpc' = [wpc EXCEPT ![c] = "created"]
  /\ active_requests' = active_requests \cup {c}

\* receive_encrypted_challenge from its start to its first suspension: the
\* admission decision.  The semaphore and the queue exist since startup, so the
\* handler's `not request_semaphore or not pending_queue` test is false.
receive_encrypted_challenge(c, peer, uuid, tok) ==
  /\ tasks_started
  /\ shutdown_pc = "serving"
  /\ hpc[c] = "idle"
  /\ \A b \in ShutdownChallenges : b < c => hpc[b] # "idle"
  /\ req' = [req EXCEPT ![c] = [peer |-> peer, uuid |-> uuid, token |-> tok]]
  /\ ready_on_arrival' = [ready_on_arrival EXCEPT ![c] = backend_ready]
  /\ IF request_semaphore.value = 0
     THEN \* at capacity: queue the request and await result_future
          /\ pending_requests_queue' = Append(pending_requests_queue, c)
          /\ fut' = [fut EXCEPT ![c] = [state |-> "pending", value |-> NoRes]]
          /\ hpc' = [hpc EXCEPT ![c] = "await_future"]
          /\ UNCHANGED <<request_semaphore, active_requests, wpc>>
     ELSE IF ~locked(request_semaphore)
     THEN \* async with request_semaphore: acquired at once
          /\ request_semaphore' = take(request_semaphore)
          /\ create_task(c)
          /\ hpc' = [hpc EXCEPT ![c] = "await_task"]
          /\ UNCHANGED <<pending_requests_queue, fut>>
     ELSE \* async with request_semaphore: an earlier waiter goes first
          /\ request_semaphore' = enqueue_waiter(request_semaphore, c)
          /\ hpc' = [hpc EXCEPT ![c] = "acquire"]
          /\ UNCHANGED <<pending_requests_queue, fut, active_requests, wpc>>
  /\ UNCHANGED <<sessVars, pump_pc, pump_item, dec, wres, resp, lifeVars>>

\* receive_encrypted_challenge: the blocked acquire() returns
handler_acquired(c) ==
  /\ hpc[c] = "acquire"
  /\ is_woken(request_semaphore, c)
  /\ request_semaphore' = resume_waiter(request_semaphore, c)
  /\ create_task(c)
  /\ hpc' = [hpc EXCEPT ![c] = "await_task"]
  /\ UNCHANGED <<sessVars, pending_requests_queue, pump_pc, pump_item,
                 req, dec, wres, fut, resp, ready_on_arrival, lifeVars>>

\* The task of challenge c ends with `result`: the done callback discards it
\* from _active_requests.  On the fast path the handler awaits the task itself.
\* On the queued path the task is process_with_result, which sets
\* pending_request_data['result_future'] unless that future is done; the
\* closure reads the pump's variable pending_request_data when it runs, and
\* that is the item the pump dequeued last.
task_done(c, result) ==
  /\ wpc' = [wpc EXCEPT ![c] = "done"]
  /\ wres' = [wres EXCEPT ![c] = result]
  /\ active_requests' = active_requests \ {c}
  /\ IF fut[c].state = "none"
     THEN UNCHANGED fut
     ELSE fut' = [fut EXCEPT ![pump_item] =
                    IF @.state = "pending"
                    THEN [state |-> "done", value |-> result] ELSE @]

\* process_request from its start to its first suspension, the await of the
\* adapter call (or of the sleep of test mode) inside inference(); there is no
\* suspension between the decryption and that await
process_request_decrypt(c) ==
  /\ wpc[c] = "created"
  /\ LET d == decrypt_challenge_payload(req[c].peer, req[c].uuid, req[c].token)
         i == inference(d.payload)
     IN
     /\ cleanup_started' = TRUE
     /\ symmetric_key_cache' = d.cache
     /\ dec' = [dec EXCEPT ![c] = [ret |-> d.ret, payload |-> d.payload,
                                       key |-> d.key, at |-> now]]
     /\ IF d.ret = "None"
        THEN /\ task_done(c, [status |-> 400, token |-> NoToken])
             /\ UNCHANGED <<llm_service, adapter_calls, pipeline_timing>>
        ELSE /\ llm_service' = i.service
             /\ pipeline_timing' =
                  [pipeline_timing EXCEPT ![c] = restore_timing(d.payload, now)]
             /\ IF i.kind = "raise"
                THEN /\ task_done(c, [status |-> i.status, token |-> NoToken])
                     /\ UNCHANGED adapter_calls
                ELSE /\ wpc' = [wpc EXCEPT ![c] = "infer"]
                     /\ adapter_calls' =
                          [adapter_calls EXCEPT ![c] =
                             IF i.kind = "call" THEN Append(@, i.args) ELSE @]
                     /\ UNCHANGED <<wres, active_requests, fut>>
  /\ UNCHANGED <<now, nonce_cache, kx_last, nonce_seen, installed,
                 request_semaphore, pending_requests_queue, pump_pc, pump_item,
                 hpc, req, resp, ready_on_arrival, backend_ready, health_last,
                 depVars, BACKENDS, gb, entry_points, openai_installed, config,
                 llm_response, response_metadata, poller_pc, shutdown_pc,
                 drain_set, avail>>

\* process_request from the return of the adapter call (inference_ok) or its
\* exception, or from the end of the sleep of test mode, to its end
process_request_respond(c, inference_ok) ==
  /\ tasks_started
  /\ wpc[c] = "infer"
  /\ config.test_mode => inference_ok
  /\ task_done(c, IF inference_ok
                  THEN encrypt_response(req[c].peer, req[c].uuid)
                  ELSE [status |-> 500, token |-> NoToken])
  /\ response_metadata' =
       [response_metadata EXCEPT ![c] =
          IF inference_ok THEN attach_timing(pipeline_timing[c], now) ELSE @]
  /\ UNCHANGED <<sessVars, request_semaphore, pending_requests_queue, pump_pc,
                 pump_item, hpc, req, dec, resp, ready_on_arrival,
                 backend_ready, health_last, depVars, BACKENDS, gb,
                 entry_points, openai_installed, config, llm_service,
                 adapter_calls, llm_response, pipeline_timing, poller_pc,
                 shutdown_pc, drain_set, avail>>

\* receive_encrypted_challenge, fast path: `await task` returns or raises, the
\* `async with` block is left and the permit released
handler_return_fast(c) ==
  /\ hpc[c] = "await_task"
  /\ wpc[c] = "done"
  /\ request_semaphore' = release(request_semaphore)
  /\ resp' = [resp EXCEPT ![c] = wres[c].status]
  /\ hpc' = [hpc EXCEPT ![c] = "responded"]
  /\ UNCHANGED <<sessVars, pending_requests_queue, active_requests, pump_pc,
                 pump_item, req, wpc, dec, wres, fut, ready_on_arrival, lifeVars>>

\* receive_encrypted_challenge, queued path: `await result_future` returns or raises
handler_return_queued(c) ==
  /\ hpc[c] = "await_future"
  /\ fut[c].state = "done"
  /\ resp' = [resp EXCEPT ![c] = fut[c].value.status]
  /\ hpc' = [hpc EXCEPT ![c] = "responded"]
  /\ UNCHANGED <<sessVars, admVars, req, wpc, dec, wres, fut, ready_on_arrival,
                 lifeVars>>

handler_cancelled_keeps_permit(c) ==
  /\ tasks_started
  /\ hpc[c] \in {"await_task", "await_future", "acquire"}
  /\ hpc' = [hpc EXCEPT ![c] = "cancelled"]
  /\ IF hpc[c] = "await_task"
     THEN /\ wpc' = [wpc EXCEPT ![c] = IF @ = "infer" THEN "cancelled" ELSE @]
          /\ active_requests' = active_requests \ {c}
          /\ UNCHANGED <<fut, request_semaphore>>
     ELSE IF hpc[c] = "await_future"
     THEN /\ fut' = [fut EXCEPT ![c] = IF @.state = "pending"
                                        THEN [state |-> "cancelled", value |-> NoRes]
                                        ELSE @]
          /\ UNCHANGED <<request_semaphore, wpc, active_requests>>
     ELSE /\ request_semaphore' = cancel_waiter(request_semaphore, c)
          /\ UNCHANGED <<fut, wpc, active_requests>>
  /\ UNCHANGED <<sessVars, pending_requests_queue, pump_pc, pump_item,
                 req, dec, wres, resp, ready_on_arrival, lifeVars>>

\* The client of c disconnects and the server cancels the handler's task,
\* which is suspended in `await task`, `await result_future` or acquire().
\* Task.cancel() cancels the awaitable the task waits on (_fut_waiter): on the
\* fast path that is the worker's task itself, which is awaited without
\* asyncio.shield, so the CancelledError is thrown into process_request
\* (BaseException: neither `except HTTPException` nor `except Exception`
\* catches it) and then leaves the handler through the `async with`, which
\* releases the permit.  On the queued path it is result_future.
handler_cancelled(c) ==
  /\ tasks_started
  /\ hpc[c] \in {"await_task", "await_future", "acquire"}
  /\ hpc' = [hpc EXCEPT ![c] = "cancelled"]
  /\ IF hpc[c] = "await_task"
     THEN /\ request_semaphore' = release(request_semaphore)
          /\ wpc' = [wpc EXCEPT ![c] = IF @ = "infer" THEN "cancelled" ELSE @]
          /\ active_requests' = active_requests \ {c}
          /\ UNCHANGED fut
     ELSE IF hpc[c] = "await_future"
     THEN /\ fut' = [fut EXCEPT ![c] = IF @.state = "pending"
                                        THEN [state |-> "cancelled", value |-> NoRes]
                                        ELSE @]
          /\ UNCHANGED <<request_semaphore, wpc, active_requests>>
     ELSE /\ request_semaphore' = cancel_waiter(request_semaphore, c)
          /\ UNCHANGED <<fut, wpc, active_requests>>
  /\ UNCHANGED <<sessVars, pending_requests_queue, pump_pc, pump_item,
                 req, dec, wres, resp, ready_on_arrival, lifeVars>>

\* ------------------------------------------------------- pending-queue pump
queue_get_newest(q) == [item |-> q[Len(q)], rest |-> SubSeq(q, 1, Len(q) - 1)]
\* _pending_requests_queue.get(): the oldest item
queue_get(q) == [item |-> Head(q), rest |-> Tail(q)]

\* process_pending_requests: wait_for(_pending_requests_queue.get()) returns an item
pump_get ==
  /\ pump_pc = "get"
  /\ pending_requests_queue # <<>>
  /\ pump_item' = queue_get(pending_requests_queue).item
  /\ pending_requests_queue' = queue_get(pending_requests_queue).rest
  /\ pump_pc' = "got"
  /\ UNCHANGED <<sessVars, request_semaphore, active_requests, chalVars, lifeVars>>

\* process_pending_requests: `async with _request_semaphore:` is entered.  With
\* a free permit the whole block runs at once: the task is created and added
\* to _active_requests, and leaving the block releases the permit.
pump_acquire ==
  /\ pump_pc = "got"
  /\ IF ~locked(request_semaphore)
     THEN /\ request_semaphore' = release(take(request_semaphore))
          /\ create_task(pump_item)
          /\ pump_pc' = "sleep"
     ELSE /\ request_semaphore' = enqueue_waiter(request_semaphore, PUMP)
          /\ pump_pc' = "acquire"
          /\ UNCHANGED <<wpc, active_requests>>
  /\ UNCHANGED <<sessVars, pending_requests_queue, pump_item, hpc, req, dec,
                 wres, fut, resp, ready_on_arrival, lifeVars>>

\* process_pending_requests: the blocked acquire() returns; the block runs and
\* the permit is released on leaving it
pump_acquired ==
  /\ pump_pc = "acquire"
  /\ is_woken(request_semaphore, PUMP)
  /\ request_semaphore' = release(resume_waiter(request_semaphore, PUMP))
  /\ create_task(pump_item)
  /\ pump_pc' = "sleep"
  /\ UNCHANGED <<sessVars, pending_requests_queue, pump_item, hpc, req, dec,
                 wres, fut, resp, ready_on_arrival, lifeVars>>

\* process_pending_requests: asyncio.sleep(0.1) returns
pump_sleep ==
  /\ tasks_started
  /\ pump_pc = "sleep"
  /\ pump_pc' = "get"
  /\ UNCHANGED <<sessVars, request_semaphore, pending_requests_queue,
                 active_requests, pump_item, chalVars, lifeVars>>

\* ------------------------------------------------------- readiness poller
poll_backend_readiness_start_ready(instantiated) ==
  /\ tasks_started
  /\ poller_pc = "start"
  /\ poller_pc' = IF instantiated THEN "poll" ELSE "exited"
  /\ backend_ready' = ~instantiated
  /\ UNCHANGED <<sessVars, admVars, chalVars, health_last, depVars, llmVars, shutdown_pc,
                 drain_set, avail>>

\* poll_backend_readiness: get_backend(backend_name, config) returns or raises
poll_backend_readiness_start(instantiated) ==
  /\ tasks_started
  /\ poller_pc = "start"
  /\ poller_pc' = IF instantiated THEN "poll" ELSE "exited"
  /\ UNCHANGED <<sessVars, admVars, chalVars, backend_ready, health_last, depVars, llmVars, shutdown_pc,
                 drain_set, avail>>

poll_backend_readiness_check_raise_ready(outcome) ==
  /\ tasks_started
  /\ poller_pc = "poll"
  /\ ~backend_ready
  /\ health_last' = outcome
  /\ IF outcome # "unhealthy"
     THEN /\ backend_ready' = TRUE
          /\ poller_pc' = "exited"
     ELSE /\ poller_pc' = "sleep"
          /\ UNCHANGED backend_ready
  /\ UNCHANGED <<sessVars, admVars, chalVars, depVars, llmVars, shutdown_pc, drain_set, avail>>

\* poll_backend_readiness: one health_check call; outcome is what it returned
\* ("healthy", "unhealthy") or that it raised ("raised")
poll_backend_readiness_check(outcome) ==
  /\ tasks_started
  /\ poller_pc = "poll"
  /\ ~backend_ready
  /\ health_last' = outcome
  /\ IF outcome = "healthy"
     THEN /\ backend_ready' = TRUE
          /\ poller_pc' = "exited"
     ELSE /\ poller_pc' = "sleep"
          /\ UNCHANGED backend_ready
  /\ UNCHANGED <<sessVars, admVars, chalVars, depVars, llmVars, shutdown_pc, drain_set, avail>>

\* poll_backend_readiness: asyncio.sleep(_BACKEND_HEALTH_POLL_INTERVAL) returns
poll_backend_readiness_sleep ==
  /\ tasks_started
  /\ poller_pc = "sleep"
  /\ poller_pc' = "poll"
  /\ UNCHANGED <<sessVars, admVars, chalVars, backend_ready, health_last, depVars, llmVars, shutdown_pc,
                 drain_set, avail>>

\* ------------------------------------------------------- availability
\* check_availability: the semaphore and the queue exist, so the answer is the
\* default AvailabilityResponse.  `ready` records _backend_ready at the answer.
check_availability ==
  /\ tasks_started
  /\ shutdown_pc = "serving"
  /\ avail' = [asked |-> TRUE, available |-> TRUE, ready |-> backend_ready]
  /\ UNCHANGED <<sessVars, admVars, chalVars, backend_ready, health_last, depVars, llmVars, poller_pc,
                 shutdown_pc, drain_set>>

\* ------------------------------------------------------- shutdown
lifespan_cancel_readiness_reset ==
  /\ tasks_started
  /\ shutdown_pc = "serving"
  /\ poller_pc' = IF poller_pc = "exited" THEN "exited" ELSE "cancelled"
  /\ shutdown_pc' = "cancel_pump"
  /\ backend_ready' = FALSE
  /\ UNCHANGED <<sessVars, admVars, chalVars, health_last, depVars, llmVars, drain_set, avail>>

\* lifespan after the yield: readiness_task.cancel() and await
lifespan_cancel_readiness ==
  /\ tasks_started
  /\ shutdown_pc = "serving"
  /\ poller_pc' = IF poller_pc = "exited" THEN "exited" ELSE "cancelled"
  /\ shutdown_pc' = "cancel_pump"
  /\ UNCHANGED <<sessVars, admVars, chalVars, backend_ready, health_last, depVars, llmVars, drain_set, avail>>

\* lifespan: pending_task.cancel() and await; a pump blocked in acquire()
\* leaves the waiters, giving back a permit it was already handed
lifespan_cancel_pump ==
  /\ shutdown_pc = "cancel_pump"
  /\ pump_pc' = "cancelled"
  /\ request_semaphore' = IF is_waiting(request_semaphore, PUMP)
                          THEN cancel_waiter(request_semaphore, PUMP)
                          ELSE request_semaphore
  /\ shutdown_pc' = "drain"
  /\ UNCHANGED <<sessVars, pending_requests_queue, active_requests, pump_item,
                 chalVars, backend_ready, health_last, depVars, llmVars, poller_pc, drain_set, avail>>

\* lifespan: `if _active_requests: await asyncio.gather(*_active_requests)`
lifespan_gather ==
  /\ shutdown_pc = "drain"
  /\ drain_set' = active_requests
  /\ shutdown_pc' = IF active_requests = {} THEN "stopped" ELSE "gather"
  /\ UNCHANGED <<sessVars, admVars, chalVars, backend_ready, health_last, depVars, llmVars, poller_pc, avail>>

\* lifespan: the gather returns once every task handed to it is done
lifespan_gathered ==
  /\ shutdown_pc = "gather"
  /\ \A c \in drain_set : wpc[c] = "done"
  /\ shutdown_pc' = "stopped"
  /\ UNCHANGED <<sessVars, admVars, chalVars, backend_ready, health_last, depVars, llmVars, poller_pc,
                 drain_set, avail>>

\* ------------------------------------------------------- FiberServer dependency
\* get_fiber_server_dependency is a plain `def`: FastAPI runs it in a worker
\* thread of its thread pool, one per request, so the calls of concurrent
\* requests interleave between their statements.
nonDepVars == <<sessVars, admVars, chalVars, backend_ready, health_last,
                llmVars, poller_pc, shutdown_pc, drain_set, avail>>

\* `if fiber_server is None:`
dep_check(r) ==
  /\ dep_pc[r] = "idle"
  /\ dep_pc' = [dep_pc EXCEPT ![r] = IF fiber_server = 0 THEN "construct" ELSE "return"]
  /\ UNCHANGED <<fiber_server, dep_got, constructed, nonDepVars>>

\* `fiber_server = FiberServer(config)`: a new RSA keypair and empty caches
dep_construct(r) ==
  /\ dep_pc[r] = "construct"
  /\ constructed' = constructed + 1
  /\ fiber_server' = constructed + 1
  /\ dep_pc' = [dep_pc EXCEPT ![r] = "return"]
  /\ UNCHANGED <<dep_got, nonDepVars>>

\* `return fiber_server`: the global is read again
dep_return(r) ==
  /\ dep_pc[r] = "return"
  /\ dep_got' = [dep_got EXCEPT ![r] = fiber_server]
  /\ dep_pc' = [dep_pc EXCEPT ![r] = "done"]
  /\ UNCHANGED <<fiber_server, constructed, nonDepVars>>

\* ------------------------------------------------------- specifications
\* the miner after start-up, whatever the registry holds
InitMiner ==
  /\ now = 0
  /\ symmetric_key_cache = EmptyDict
  /\ nonce_cache = EmptyDict
  /\ cleanup_started = FALSE
  /\ kx_last = [nonce |-> 0, ret |-> FALSE, replay |-> FALSE, seq |-> 0,
                peer |-> "none", uuid |-> "none", key |-> 0,
                timestamp |-> 0, signature |-> "none"]
  /\ nonce_seen = [n \in Nonces |-> 0 - 1]
  /\ installed = [p \in AllPeers |-> [u \in AllUuids |-> [key |-> 0, at |-> 0 - 1]]]
  /\ request_semaphore = [value |-> N, waiters |-> <<>>]
  /\ pending_requests_queue = <<>>
  /\ active_requests = {}
  /\ pump_pc = "get"
  /\ pump_item = 0
  /\ hpc = [c \in ShutdownChallenges |-> "idle"]
  /\ req = [c \in ShutdownChallenges |-> NoReq]
  /\ wpc = [c \in ShutdownChallenges |-> "none"]
  /\ dec = [c \in ShutdownChallenges |-> NoDec]
  /\ wres = [c \in ShutdownChallenges |-> NoRes]
  /\ fut = [c \in ShutdownChallenges |-> NoFuture]
  /\ resp = [c \in ShutdownChallenges |-> 0]
  /\ ready_on_arrival = [c \in ShutdownChallenges |-> FALSE]
  /\ backend_ready = FALSE
  /\ health_last = "none"
  /\ fiber_server = 0
  /\ dep_pc = [r \in FirstRequests |-> "idle"]
  /\ dep_got = [r \in FirstRequests |-> 0]
  /\ constructed = 0
  /\ poller_pc = "start"
  /\ shutdown_pc = "serving"
  /\ drain_set = {}
  /\ avail = [asked |-> FALSE, available |-> FALSE, ready |-> FALSE]
  /\ gb = NoCall
  /\ llm_service = "unset"
  /\ adapter_calls = [c \in ShutdownChallenges |-> <<>>]
  /\ llm_response = NoResponse
  /\ pipeline_timing = [c \in ShutdownChallenges |-> NoTiming]
  /\ response_metadata = [c \in ShutdownChallenges |-> NoMetadata]

\* the miner after start-up with the three adapters of the package installed
Init ==
  /\ InitMiner
  /\ config = [test_mode |-> FALSE, llm_backend |-> "llamacpp",
               default_model |-> "node-choice"]
  /\ entry_points = PackageEntryPoints
  /\ openai_installed = TRUE
  /\ BACKENDS = get_backends(entry_points)

\* the miner after start-up in any installation
InitBackend ==
  /\ InitMiner
  /\ config = [test_mode |-> FALSE, llm_backend |-> "llamacpp",
               default_model |-> "node-choice"]
  /\ entry_points \in EntryPointLists
  /\ openai_installed \in BOOLEAN
  /\ BACKENDS = get_backends(entry_points)

\* The admission pipeline.  The clock stands still: one session is negotiated
\* and never expires.
Next ==
  \/ \E c \in Challenges, p \in Peers, u \in Uuids :
       receive_encrypted_challenge(c, p, u, Token(1, 0, "json"))
  \/ \E c \in Challenges : handler_acquired(c)
  \/ \E c \in Challenges : process_request_decrypt(c)
  \/ \E c \in Challenges, ok \in BOOLEAN : process_request_respond(c, ok)
  \/ \E c \in Challenges : handler_return_fast(c)
  \/ \E c \in Challenges : handler_return_queued(c)
  \/ pump_get
  \/ pump_acquire
  \/ pump_acquired
  \/ pump_sleep
  \/ \E p \in Peers, u \in Uuids :
       exchange_symmetric_key([kind |-> "ok", key |-> 1], u, now, 1, "sig", p)

Spec == Init /\ [][Next]_vars

\* The readiness gate, the availability probe and the shutdown, around the
\* admission pipeline with MaxLifeChallenges arrivals.  A handler blocks in
\* acquire() only after N + 2 arrivals, so handler_acquired has no step here.
NextLife ==
  \/ \E c \in LifeChallenges, p \in Peers, u \in Uuids :
       receive_encrypted_challenge(c, p, u, Token(1, 0, "json"))
  \/ \E c \in LifeChallenges : process_request_decrypt(c)
  \/ \E c \in LifeChallenges, ok \in BOOLEAN : process_request_respond(c, ok)
  \/ \E c \in LifeChallenges : handler_return_fast(c)
  \/ \E c \in LifeChallenges : handler_return_queued(c)
  \/ pump_get
  \/ pump_acquire
  \/ pump_acquired
  \/ pump_sleep
  \/ \E p \in Peers, u \in Uuids :
       exchange_symmetric_key([kind |-> "ok", key |-> 1], u, now, 1, "sig", p)
  \/ \E b \in BOOLEAN : poll_backend_readiness_start(b)
  \/ \E o \in {"healthy", "unhealthy", "raised"} : poll_backend_readiness_check(o)
  \/ poll_backend_readiness_sleep
  \/ check_availability
  \/ lifespan_cancel_readiness
  \/ lifespan_cancel_pump
  \/ lifespan_gather
  \/ lifespan_gathered

SpecLife == Init /\ [][NextLife]_vars

\* The shutdown around the admission pipeline with MaxShutdownChallenges
\* arrivals: enough for a worker launched by the pump to be running while the
\* pump holds a later item and waits for a permit
NextShutdown ==
  \/ \E c \in ShutdownChallenges, p \in Peers, u \in Uuids :
       receive_encrypted_challenge(c, p, u, Token(1, 0, "json"))
  \/ \E c \in ShutdownChallenges : handler_acquired(c)
  \/ \E c \in ShutdownChallenges : process_request_decrypt(c)
  \/ \E c \in ShutdownChallenges : process_request_respond(c, TRUE)
  \/ \E c \in ShutdownChallenges : handler_return_fast(c)
  \/ \E c \in ShutdownChallenges : handler_return_queued(c)
  \/ pump_get
  \/ pump_acquire
  \/ pump_acquired
  \/ pump_sleep
  \/ \E p \in Peers, u \in Uuids :
       exchange_symmetric_key([kind |-> "ok", key |-> 1], u, now, 1, "sig", p)
  \/ lifespan_cancel_readiness
  \/ lifespan_cancel_pump
  \/ lifespan_gather
  \/ lifespan_gathered

SpecShutdown == Init /\ [][NextShutdown]_vars

\* The admission pipeline under a running clock: a session can expire while
\* workers are suspended in the inference call.  Every inference succeeds,
\* and the challenges arrive in one burst, within one tick of the clock.
NextExpiry ==
  \/ \E c \in Challenges, p \in Peers, u \in Uuids :
       receive_encrypted_challenge(c, p, u, Token(1, 0, "json"))
  \/ \E c \in Challenges : process_request_decrypt(c)
  \/ \E c \in Challenges : process_request_respond(c, TRUE)
  \/ \E c \in Challenges : handler_return_fast(c)
  \/ \E c \in Challenges : handler_return_queued(c)
  \/ pump_get
  \/ pump_acquire
  \/ pump_acquired
  \/ pump_sleep
  \/ \E p \in Peers, u \in Uuids :
       exchange_symmetric_key([kind |-> "ok", key |-> 1], u, now, 1, "sig", p)
  \/ BurstTick

SpecExpiry == Init /\ [][NextExpiry]_vars

\* The first requests of a process resolve their FiberServer dependency
NextBoot ==
  \/ \E r \in FirstRequests : dep_check(r)
  \/ \E r \in FirstRequests : dep_construct(r)
  \/ \E r \in FirstRequests : dep_return(r)

SpecBoot == Init /\ [][NextBoot]_vars

\* get_backend applied to every name and configuration, under every registry
NextBackend ==
  \E name \in RequestedNames, cfg \in Configs : call_get_backend(name, cfg)

SpecBackend == InitBackend /\ [][NextBackend]_vars

\* the miner after start-up under every configuration: test mode on or off,
\* a configured backend that is registered or not, the client package
\* installed or not
InitInference ==
  /\ InitMiner
  /\ config \in [test_mode : BOOLEAN, llm_backend : {"vllm", "unknown"},
                  default_model : {"node-choice"}]
  /\ entry_points = PackageEntryPoints
  /\ openai_installed \in BOOLEAN
  /\ BACKENDS = get_backends(entry_points)

\* Challenges with every kind of envelope, served on the fast path
NextInference ==
  \/ \E c \in InfChallenges, p \in Peers, u \in Uuids, d \in EnvelopeTexts :
       receive_encrypted_challenge(c, p, u, Token(1, 0, d))
  \/ \E c \in InfChallenges : process_request_decrypt(c)
  \/ \E c \in InfChallenges, ok \in BOOLEAN : process_request_respond(c, ok)
  \/ \E c \in InfChallenges : handler_return_fast(c)
  \/ \E p \in Peers, u \in Uuids :
       exchange_symmetric_key([kind |-> "ok", key |-> 1], u, now, 1, "sig", p)

SpecInference == InitInference /\ [][NextInference]_vars

\* The admission pipeline with challenges whose ciphertext may be made with
\* another key or hold no JSON, or that arrive before the session exists
NextWorker ==
  \/ \E c \in Challenges, p \in Peers, u \in Uuids, k \in Keys, d \in {"json", "notjson"} :
       receive_encrypted_challenge(c, p, u, Token(k, 0, d))
  \/ \E c \in Challenges : process_request_decrypt(c)
  \/ \E c \in Challenges : process_request_respond(c, TRUE)
  \/ \E c \in Challenges : handler_return_fast(c)
  \/ \E c \in Challenges : handler_return_queued(c)
  \/ pump_get
  \/ pump_acquire
  \/ pump_acquired
  \/ pump_sleep
  \/ \E p \in Peers, u \in Uuids :
       exchange_symmetric_key([kind |-> "ok", key |-> 1], u, now, 1, "sig", p)

SpecWorker == Init /\ [][NextWorker]_vars

\* Every adapter variant applied to every response of the upstream server
NextAdapter ==
  \E variant \in BackendNames, response \in ServerResponses :
    chat_completion(variant, response)

SpecAdapter == Init /\ [][NextAdapter]_vars

\* Handshakes of several peers, each with several key uuids, with every
\* signature, under a running clock
NextHandshake ==
  \/ HandshakeTick
  \/ \E e \in HandshakeKeys, p \in AllPeers, u \in AllUuids, n \in Nonces,
        t \in {now, MaxTime}, sg \in Signatures :
       exchange_symmetric_key(e, u, t, n, sg, p)

SpecHandshake == Init /\ [][NextHandshake]_vars

\* The admission pipeline with clients that may disconnect
NextCancel ==
  \/ Next
  \/ \E c \in Challenges : handler_cancelled(c)

SpecCancel == Init /\ [][NextCancel]_vars

\* The session layer under a running clock, with the reaper, every kind of
\* key exchange and every kind of ciphertext.
NextSession ==
  \/ Tick
  \/ \E e \in EncryptedKeys, p \in Peers, u \in Uuids, n \in Nonces :
       exchange_symmetric_key(e, u, now, n, "sig", p)
  \/ cleanup_expired_keys
  \/ \E c \in SessChallenges, p \in Peers, u \in Uuids,
        k \in Keys, t \in 0..now, d \in Payloads :
       receive_encrypted_challenge(c, p, u, Token(k, t, d))
  \/ \E c \in SessChallenges : process_request_decrypt(c)
  \/ \E c \in SessChallenges, ok \in BOOLEAN : process_request_respond(c, ok)
  \/ \E c \in SessChallenges : handler_return_fast(c)

SpecSession == Init /\ [][NextSession]_vars

\* The session layer with its scheduling: time passes, the reaper's loop
\* (`while True: await asyncio.sleep(ttl / 2)`) gets its turn, and a created
\* task takes its first step.
SpecSessionFair ==
  /\ SpecSession
  /\ WF_vars(Tick)
  /\ WF_vars(cleanup_expired_keys)
  /\ WF_vars(\E c \in SessChallenges : process_request_decrypt(c))

\* ------------------------------------------------------- properties
\* a worker has taken its first step / has finished
Started(c) == wpc[c] \in {"infer", "done"}
Completed(c) == wpc[c] = "done"
Queued(c) == fut[c].state # "none"
Launched(c) == wpc[c] # "none"

\* C1: the number of challenge workers that have started and not finished is
\* at most N = max_concurrent_requests.
C1_InFlightBound ==
  Cardinality({c \in Challenges : Started(c) /\ ~Completed(c)}) <= N

\* C2: for every k > N the worker of the k-th arrival does not start before the
\* worker of the (k-N)-th arrival has completed.  It is stated for the runs
\* in which workers complete in arrival order (a backend that answers every
\* request after the same delay).
C2_OverloadOrder ==
  (\A i, j \in Challenges : (i < j /\ Completed(j)) => Completed(i))
    => \A k \in Challenges : (k > N /\ Started(k)) => Completed(k - N)

\* C3: of two challenges placed in the pending queue, the one enqueued first
\* (the earlier arrival) has its worker launched first.
C3_PumpFifo ==
  \A a, b \in Challenges :
    (a < b /\ Queued(a) /\ Queued(b) /\ Launched(b)) => Launched(a)

C3_Witness ==
  \E a, b \in Challenges : a < b /\ Queued(a) /\ Queued(b) /\ Launched(a) /\ Launched(b)

\* C4: a challenge that arrives while backend_ready is false is answered 503
\* and is neither decrypted, nor enqueued, nor given a permit or a worker.
C4_ReadinessGate ==
  \A c \in Challenges :
    (hpc[c] # "idle" /\ ~ready_on_arrival[c]) =>
      /\ hpc[c] = "responded"
      /\ resp[c] = 503
      /\ ~Launched(c)
      /\ ~Queued(c)
      /\ dec[c] = NoDec

\* C5: GET /availability answers available = true if and only if backend_ready
\* is true (the semaphore and the queue exist in every state of the model).
C5_AvailabilityReflectsReady ==
  avail.asked => (avail.available <=> avail.ready)

\* C6: backend_ready starts false and, once true, is never false again.
C6_ReadyMonotonic ==
  /\ backend_ready = FALSE
  /\ [][backend_ready => backend_ready']_vars

C6_Witness == backend_ready /\ shutdown_pc = "stopped"

\* The step in which the worker of c runs decrypt_challenge_payload
DecryptStep(c) == wpc[c] = "created" /\ wpc'[c] # "created"

\* C7 as stated: with the session of the request installed at time t by the
\* last successful handshake, a ciphertext of a JSON payload made with that
\* session's key decrypts at every time in [t, t+T) and fails at every time
\* >= t+T.
C7_TtlWindow ==
  [][\A c \in Challenges :
       LET i == installed[req[c].peer][req[c].uuid] IN
       (DecryptStep(c) /\ i.at >= 0 /\ req[c].token.key = i.key
          /\ req[c].token.data \in JsonTexts) =>
         /\ now < i.at + KeyTtl => dec'[c].ret = "dict"
         /\ now >= i.at + KeyTtl => dec'[c].ret = "None"]_vars

\* C7 amended: the ciphertext decrypts at every time in [t, t+T] provided it is
\* itself at most T old, and fails at every time > t+T.
C7_TtlWindowInclusive ==
  [][\A c \in Challenges :
       LET i == installed[req[c].peer][req[c].uuid] IN
       (DecryptStep(c) /\ i.at >= 0 /\ req[c].token.key = i.key
          /\ req[c].token.data \in JsonTexts) =>
         /\ (now <= i.at + KeyTtl /\ req[c].token.ts + KeyTtl >= now)
              => dec'[c].ret = "dict"
         /\ now > i.at + KeyTtl => dec'[c].ret = "None"]_vars

\* a decryption that succeeded exactly T after the handshake
C7_Witness ==
  \E c \in Challenges :
    /\ dec[c].ret = "dict"
    /\ req[c].token.key = installed[req[c].peer][req[c].uuid].key
    /\ dec[c].at = installed[req[c].peer][req[c].uuid].at + KeyTtl

\* C8: a key exchange carrying a nonce that a handshake recorded at time t
\* returns false at every time in [t, t + handshake_timeout), whatever the
\* reaper did in between.
C8_ReplayRejected ==
  [][kx_last'.seq # kx_last.seq =>
       LET n == kx_last'.nonce IN
       (nonce_seen[n] >= 0 /\ now < nonce_seen[n] + HandshakeTimeout)
         => kx_last'.ret = FALSE]_vars

\* a replay rejected one tick after the nonce was recorded
C8_Witness ==
  /\ kx_last.replay
  /\ kx_last.ret = FALSE
  /\ nonce_seen[kx_last.nonce] < now

\* C9: a key exchange that returns false leaves the session cache and the
\* nonce window exactly as they were.
C9_NoPartialState ==
  [][(kx_last'.seq # kx_last.seq /\ kx_last'.ret = FALSE) =>
       (symmetric_key_cache' = symmetric_key_cache /\ nonce_cache' = nonce_cache)]_vars

\* C10: the response of a challenge is encrypted with the session key that
\* decrypted its request.
C10_SameSessionKey ==
  \A c \in Challenges : wres[c].status = 200 => wres[c].token.key = dec[c].key

\* The session of the request of c is live: it is in the cache and its
\* expiration time has not passed
LiveSession(c) ==
  /\ req[c].peer \in DOMAIN symmetric_key_cache
  /\ req[c].uuid \in DOMAIN symmetric_key_cache[req[c].peer]
  /\ ~(now > symmetric_key_cache[req[c].peer][req[c].uuid].exp)

\* C11 as stated: with a live session, decrypt_challenge_payload returns the
\* payload p of a ciphertext made from the text of p under the session's key,
\* and fails on a ciphertext made under another key.
C11_RoundTrip ==
  [][\A c \in Challenges :
       (DecryptStep(c) /\ LiveSession(c)) =>
         LET k == symmetric_key_cache[req[c].peer][req[c].uuid].key IN
         /\ (req[c].token.key = k /\ req[c].token.data \in JsonTexts)
              => (dec'[c].ret = "dict" /\ dec'[c].payload = req[c].token.data)
         /\ req[c].token.key # k => dec'[c].ret = "None"]_vars

\* C11 amended: the round trip holds for a ciphertext that is at most
\* fiber_key_ttl_seconds old when it is decrypted.
C11_RoundTripFresh ==
  [][\A c \in Challenges :
       (DecryptStep(c) /\ LiveSession(c)) =>
         LET k == symmetric_key_cache[req[c].peer][req[c].uuid].key IN
         /\ (req[c].token.key = k /\ req[c].token.data \in JsonTexts
               /\ req[c].token.ts + KeyTtl >= now)
              => (dec'[c].ret = "dict" /\ dec'[c].payload = req[c].token.data)
         /\ req[c].token.key # k => dec'[c].ret = "None"]_vars

\* the second JSON payload came back from a decryption
C11_Witness ==
  \E c \in Challenges :
    dec[c].ret = "dict" /\ dec[c].payload = "json2" /\ req[c].token.data = "json2"

\* C12: a worker whose handler was cancelled after the worker was launched is
\* not cancelled, on the fast path and on the queued path.
C12_WorkerSurvivesDisconnect ==
  \A c \in Challenges :
    (hpc[c] = "cancelled" /\ Launched(c)) => wpc[c] # "cancelled"

\* C13: when shutdown has returned, the readiness poller, the pump and the
\* session reaper are no longer running and every worker that was in Active
\* when the drain began has finished.
C13_ShutdownStopsBackground ==
  shutdown_pc = "stopped" =>
    /\ poller_pc \in {"exited", "cancelled"}
    /\ pump_pc = "cancelled"
    /\ ~reaper_running
    /\ \A c \in drain_set : wpc[c] = "done"

\* the cache holds an entry for (p, u) whose expiration time has passed
Expired(p, u) ==
  /\ p \in DOMAIN symmetric_key_cache
  /\ u \in DOMAIN symmetric_key_cache[p]
  /\ now > symmetric_key_cache[p][u].exp

\* C14: decrypt_challenge_payload never returns a payload from an entry whose
\* expiration time has passed, and such an entry is eventually removed from
\* the cache (or replaced by a new handshake).
C14_ExpiredUnreachable ==
  /\ [][\A c \in Challenges :
          (DecryptStep(c) /\ Expired(req[c].peer, req[c].uuid))
            => dec'[c].ret = "None"]_vars
  /\ \A p \in Peers, u \in Uuids : Expired(p, u) ~> ~Expired(p, u)

\* a session was installed, its expiration time has passed and the cache no
\* longer holds it
C14_Witness ==
  \E p \in Peers, u \in Uuids :
    /\ installed[p][u].at >= 0
    /\ now > installed[p][u].at + KeyTtl
    /\ p \notin DOMAIN symmetric_key_cache

\* C15: every challenge enqueued in Pending has its promise resolved.  The
\* promise of a queued challenge is resolved by its worker's last step and by
\* nothing else, so it is stated at that step: once the worker of a queued
\* challenge has terminated, its result_future is done.
C15_QueuedResolved ==
  \A c \in Challenges : (Queued(c) /\ Completed(c)) => fut[c].state = "done"

\* a step in which a health_check call of the poller ends
HealthCheckStep == poller_pc = "poll" /\ poller_pc' \in {"sleep", "exited"}

\* C16: a health_check call that returns true sets backend_ready and ends the
\* poller; one that returns false or raises leaves backend_ready false and is
\* followed by a sleep of one poll interval before the next call; nothing
\* else changes backend_ready; a poller that has ended makes no further call.
C16_PollerProtocol ==
  [][/\ HealthCheckStep =>
          IF health_last' = "healthy"
          THEN backend_ready' /\ poller_pc' = "exited"
          ELSE ~backend_ready' /\ poller_pc' = "sleep"
     /\ ~HealthCheckStep =>
          (health_last' = health_last /\ backend_ready' = backend_ready)
     /\ (poller_pc' = "poll" /\ poller_pc # "poll") =>
          poller_pc \in {"start", "sleep"}
     /\ poller_pc = "exited" => poller_pc' = "exited"]_vars

\* the poller has ended after a health_check call that returned true
C16_Witness == backend_ready /\ health_last = "healthy" /\ poller_pc = "exited"

\* the worker of c decrypted its request and then raised 400 at the response
\* encryption
EncryptFailed(c) ==
  Completed(c) /\ dec[c].ret = "dict" /\ wres[c].status = 400

\* C17: a worker that finds the session missing or expired at the response
\* encryption produces no ciphertext, and its challenge is answered 400: the
\* 400 is what the handler's promise holds once the worker has ended, and
\* what the handler sends.
C17_EncryptFailureIs400 ==
  \A c \in Challenges :
    EncryptFailed(c) =>
      /\ wres[c].token = NoToken
      /\ Queued(c) => (fut[c].state = "done" /\ fut[c].value.status = 400)
      /\ hpc[c] = "responded" => resp[c] = 400

\* a step of the reaper: the caches change, and neither a key exchange nor a
\* decryption took place
ReaperStep ==
  /\ kx_last' = kx_last
  /\ dec' = dec
  /\ symmetric_key_cache' # symmetric_key_cache \/ nonce_cache' # nonce_cache

\* C18: the operations on the session cache and the nonce window are atomic.
\* Every session entry is the whole (key, expiration) pair of one handshake,
\* never a mix of two, and no peer maps to a half-removed entry; a reaper
\* pass removes every expired session and every expired nonce and nothing
\* else, whatever ran before it.
C18_AtomicCacheOps ==
  /\ \A p \in DOMAIN symmetric_key_cache : \A u \in DOMAIN symmetric_key_cache[p] :
       symmetric_key_cache[p][u] =
         [key |-> installed[p][u].key, exp |-> installed[p][u].at + KeyTtl]
  /\ [][ReaperStep =>
          /\ \A p \in DOMAIN symmetric_key_cache' :
               /\ DOMAIN symmetric_key_cache'[p] # {}
               /\ \A u \in DOMAIN symmetric_key_cache'[p] :
                    ~(now > symmetric_key_cache'[p][u].exp)
          /\ \A p \in DOMAIN symmetric_key_cache :
               \A u \in DOMAIN symmetric_key_cache[p] :
                 ~(now > symmetric_key_cache[p][u].exp) =>
                   /\ p \in DOMAIN symmetric_key_cache'
                   /\ u \in DOMAIN symmetric_key_cache'[p]
                   /\ symmetric_key_cache'[p][u] = symmetric_key_cache[p][u]
          /\ \A n \in DOMAIN nonce_cache :
               IF now - nonce_cache[n] > HandshakeTimeout
               THEN n \notin DOMAIN nonce_cache'
               ELSE n \in DOMAIN nonce_cache' /\ nonce_cache'[n] = nonce_cache[n]
          /\ DOMAIN nonce_cache' \subseteq DOMAIN nonce_cache]_vars

\* a reaper pass has emptied the session cache and the nonce window after two
\* handshakes
C18_Witness ==
  /\ symmetric_key_cache = EmptyDict
  /\ nonce_cache = EmptyDict
  /\ \A n \in Nonces : nonce_seen[n] >= 0
  /\ \E p \in Peers, u \in Uuids : installed[p][u].at >= 0

\* C19: at most one FiberServer is ever constructed, and all requests are
\* served by the same one.
C19_SingleFiberServer ==
  /\ constructed <= 1
  /\ \A r1, r2 \in FirstRequests :
       (dep_pc[r1] = "done" /\ dep_pc[r2] = "done") => dep_got[r1] = dep_got[r2]

\* C20: get_backend returns an instance of the named adapter, built with the
\* given config, when the name is registered; an instance of the first
\* registered adapter, after a warning, when it is not and the registry is
\* not empty; and it raises "No backends available" exactly when the
\* registry is empty.
C20_GetBackend ==
  gb.called =>
    /\ gb.name \in Range(BACKENDS) =>
         gb.result = [kind |-> "instance", adapter |-> gb.name,
                      config |-> gb.config, warned |-> FALSE]
    /\ (gb.name \notin Range(BACKENDS) /\ BACKENDS # <<>>) =>
         gb.result = [kind |-> "instance", adapter |-> BACKENDS[1],
                      config |-> gb.config, warned |-> TRUE]
    /\ gb.result.kind = "ValueError: No backends available" <=> BACKENDS = <<>>

\* C21: a call of get_backend never ends in the constructor error of an
\* adapter that is in the registry: such an adapter was left out at boot.
C21_NoConstructorErrorAtResolve ==
  gb.called =>
    ~(gb.result.adapter \in Range(BACKENDS)
      /\ gb.result.kind = "ImportError: openai is not installed")

\* C22: after discovery the registry holds exactly the entry points whose
\* load succeeded, in discovery order, whatever the other entry points did.
C22_RegistryIsLoadedEntryPoints ==
  /\ Range(BACKENDS) \subseteq {entry_points[i].name : i \in DOMAIN entry_points}
  /\ Range(BACKENDS) =
       {entry_points[i].name :
          i \in {j \in DOMAIN entry_points : entry_points[j].load = "class"}}
  /\ BACKENDS \in Registries
  /\ \A i, j \in DOMAIN BACKENDS :
       i < j => \E a, b \in DOMAIN entry_points :
                  /\ a < b
                  /\ entry_points[a].name = BACKENDS[i]
                  /\ entry_points[b].name = BACKENDS[j]

\* a failing entry point sits before one that loads, and the latter is
\* registered and resolved
C22_Witness ==
  /\ gb.called
  /\ Len(entry_points) >= 2
  /\ entry_points[1].load # "class"
  /\ entry_points[2].load = "class"
  /\ entry_points[2].name \in Range(BACKENDS)
  /\ gb.name = entry_points[2].name

\* the chat_completion call of challenge c failed: its worker went through
\* the adapter call and ended with 500
AdapterFailed(c) ==
  /\ adapter_calls[c] # <<>>
  /\ wpc[c] = "done"
  /\ wres[c].status = 500

\* C23: a challenge whose decrypted envelope carries neither a prompt nor
\* messages is answered 400 and the adapter is not called for it, under every
\* configuration of the node.
C23_BadEnvelopeIs400 ==
  \A c \in Challenges :
    (dec[c].ret = "dict" /\ dec[c].payload = "json_bare") =>
      /\ adapter_calls[c] = <<>>
      /\ wpc[c] = "done"
      /\ wres[c].status = 400
      /\ hpc[c] = "responded" => resp[c] = 400

\* C24: a challenge whose chat_completion call failed is answered 500, the
\* adapter is called at most once for a challenge, and once every challenge
\* is answered no permit is held.
C24_AdapterFailureIs500 ==
  /\ \A c \in Challenges : Len(adapter_calls[c]) <= 1
  /\ \A c \in Challenges :
       (AdapterFailed(c) /\ hpc[c] = "responded") => resp[c] = 500
  /\ (\A c \in Challenges : hpc[c] = "responded" /\ wpc[c] \in {"none", "done"})
       => request_semaphore.value = N

\* two envelopes that differ at most in the model field
SameButModel(x, y) ==
  [InferenceRequest(x) EXCEPT !.model = "none"] =
    [InferenceRequest(y) EXCEPT !.model = "none"]

\* C27: every adapter call carries the node's default_model, and two
\* challenges whose envelopes differ only in the model field lead to the same
\* adapter calls.
C27_ModelIsDefault ==
  /\ \A c \in Challenges : \A i \in DOMAIN adapter_calls[c] :
       adapter_calls[c][i].model = config.default_model
  /\ \A a, b \in Challenges :
       (/\ wpc[a] \in {"infer", "done"} /\ wpc[b] \in {"infer", "done"}
        /\ dec[a].ret = "dict" /\ dec[b].ret = "dict"
        /\ SameButModel(dec[a].payload, dec[b].payload))
       => adapter_calls[a] = adapter_calls[b]

C27_Witness ==
  \E a, b \in Challenges :
    /\ dec[a].payload = "json"
    /\ dec[b].payload = "json_model"
    /\ adapter_calls[a] # <<>>
    /\ adapter_calls[b] = adapter_calls[a]
    /\ hpc[a] = "responded"
    /\ hpc[b] = "responded"

\* C30: the adapter is called for a challenge only after its payload was
\* decrypted, a response is encrypted only after the adapter call, and a
\* challenge whose decryption failed (unknown session, ciphertext of another
\* key, no JSON) is answered 400 with no adapter call and no encryption.
C30_WorkerOrder ==
  \A c \in Challenges :
    /\ adapter_calls[c] # <<>> => dec[c].ret = "dict"
    /\ wres[c].token # NoToken => adapter_calls[c] # <<>>
    /\ dec[c].ret = "None" =>
         /\ adapter_calls[c] = <<>>
         /\ wres[c] = [status |-> 400, token |-> NoToken]
         /\ hpc[c] = "responded" => resp[c] = 400

\* C25: for every adapter variant the usage of the result is the server's
\* prompt, completion and total token counts, and is zero-filled exactly when
\* the server sent no usage block.
C25_UsageFromServer ==
  llm_response.called =>
    llm_response.result.usage =
      IF llm_response.response.usage.present
      THEN [prompt_tokens |-> or_0(llm_response.response.usage.prompt_tokens),
            completion_tokens |-> or_0(llm_response.response.usage.completion_tokens),
            total_tokens |-> or_0(llm_response.response.usage.total_tokens)]
      ELSE TokenUsage

\* C26: for every adapter variant the finish_reason of the result is the
\* server's, "stop" when the server sent none, except that it is "tool_calls"
\* when the result carries tool calls and the server's reason is "stop".
C26_FinishReason ==
  llm_response.called =>
    LET served == IF llm_response.response.finish_reason = "none" THEN "stop"
                  ELSE llm_response.response.finish_reason
    IN llm_response.result.finish_reason =
         IF llm_response.result.tool_calls /\ served = "stop"
         THEN "tool_calls" ELSE served

\* the permits that are out: acquired (or handed to a woken waiter) and not
\* released
PermitsHeld == N - request_semaphore.value

\* C28: the permit acquired for a challenge, by its handler or by the pump,
\* is held until the challenge's worker has finished and, for a queued
\* challenge, its future is resolved: every launched challenge that is not
\* yet through has a permit out.
C28_PermitHeldForWholeRun ==
  Cardinality({c \in Challenges :
                 /\ Launched(c)
                 /\ \/ ~Completed(c)
                    \/ Queued(c) /\ fut[c].state = "pending"})
    <= PermitsHeld

\* C29: on arrival, a challenge that finds a free permit takes it without
\* waiting, its worker is launched and added to the active set, and it is not
\* put in the pending queue; one that finds no free permit is appended to the
\* pending queue, and its worker is launched only by the pump, after the pump
\* dequeued it.
C29_AdmissionDecision ==
  [][\A c \in Challenges :
       /\ (hpc[c] = "idle" /\ hpc'[c] # "idle") =>
            IF request_semaphore.value > 0
            THEN /\ request_semaphore'.value = request_semaphore.value - 1
                 /\ wpc'[c] = "created"
                 /\ c \in active_requests'
                 /\ pending_requests_queue' = pending_requests_queue
                 /\ fut'[c].state = "none"
            ELSE /\ pending_requests_queue' = Append(pending_requests_queue, c)
                 /\ wpc'[c] = "none"
       /\ (Queued(c) /\ wpc[c] = "none" /\ wpc'[c] # "none") =>
            /\ pump_item = c
            /\ pump_pc \in {"got", "acquire"}
            /\ \A i \in DOMAIN pending_requests_queue : pending_requests_queue[i] # c
       /\ (hpc[c] # "idle" /\ ~Queued(c)) => ~Queued(c)']_vars

HandshakeAccepted == kx_last'.seq # kx_last.seq /\ kx_last'.ret

\* (q, v) is an entry of session cache d
HasEntry(d, q, v) == q \in DOMAIN d /\ v \in DOMAIN d[q]

\* C32: a successful exchange_symmetric_key for (peer, uuid) at time now
\* leaves the cache mapping (peer, uuid) to the new key with expiration
\* now + ttl, whatever the pair mapped to before, and leaves every other
\* entry as it was.
C32_HandshakeFrame ==
  [][HandshakeAccepted =>
       LET p == kx_last'.peer
           u == kx_last'.uuid
       IN
       /\ HasEntry(symmetric_key_cache', p, u)
       /\ symmetric_key_cache'[p][u] = [key |-> kx_last'.key, exp |-> now + KeyTtl]
       /\ \A q \in AllPeers, v \in AllUuids :
            <<q, v>> # <<p, u>> =>
              /\ HasEntry(symmetric_key_cache', q, v)
                   <=> HasEntry(symmetric_key_cache, q, v)
              /\ HasEntry(symmetric_key_cache, q, v) =>
                   symmetric_key_cache'[q][v] = symmetric_key_cache[q][v]]_vars

\* the last handshake succeeded next to an older entry of the same peer
C32_Witness ==
  /\ kx_last.ret
  /\ HasEntry(symmetric_key_cache, kx_last.peer, kx_last.uuid)
  /\ symmetric_key_cache[kx_last.peer][kx_last.uuid].exp = now + KeyTtl
  /\ \E v \in AllUuids :
       /\ v # kx_last.uuid
       /\ HasEntry(symmetric_key_cache, kx_last.peer, v)
       /\ symmetric_key_cache[kx_last.peer][v].exp < now + KeyTtl

C33_PromiseResolvedByOwnWorker ==
  [][\A c \in Challenges :
       /\ fut'[c].state = "done" =>
            /\ wpc'[c] = "done"
            /\ fut'[c].value = wres'[c]
       /\ fut[c].state \in {"done", "cancelled"} => fut'[c] = fut[c]]_vars


\* C34: a worker's successful response carries a timing record exactly when
\* the envelope's metadata held timing_data that is a JSON object; the record
\* is then the incoming stages, unchanged and in their order, followed by a
\* miner_inference stage and then a miner_response stage; the arguments of
\* the adapter call hold messages and model only, never the metadata
TimingCarried(c) == challenge_metadata(dec[c].payload) \in {"timing_dict", "timing_list"}
Answered200(c) == wpc[c] = "done" /\ wres[c].status = 200
TimingExtended(c) ==
  LET out == from_dict(response_metadata[c].timing_data)
      n == Len(IncomingStages)
  IN /\ response_metadata[c].attached
     /\ Len(out) = n + 2
     /\ SubSeq(out, 1, n) = IncomingStages
     /\ out[n + 1].name = "miner_inference"
     /\ out[n + 2].name = "miner_response"
Waiting(e) == Queued(e) /\ ~Launched(e)
C35_NoOvertaking ==
  [][\A c, e \in Challenges :
       (e < c /\ Waiting(e) /\ ~Launched(c)) => ~Launched(c)']_vars

\* C36: backend_ready is written by the readiness poller only: it is true
\* only after a health_check call that returned true, it changes in no step
\* but a health_check call of the poller, and a poller that could not
\* instantiate the backend ends at once and backend_ready stays false
InstantiationFailed == poller_pc = "exited" /\ health_last = "none"
C36_ReadyWrittenByPoller ==
  /\ backend_ready => (health_last = "healthy" /\ poller_pc = "exited")
  /\ [][/\ backend_ready' # backend_ready => HealthCheckStep
        /\ (poller_pc = "start" /\ poller_pc' \notin {"start", "poll"}) =>
             (poller_pc' \in {"exited", "cancelled"} /\ ~backend_ready')
        /\ InstantiationFailed => (InstantiationFailed' /\ ~backend_ready')]_vars
\* the poller ended without a health_check call, and the miner served and
\* stopped with backend_ready false
C36_Witness == InstantiationFailed /\ ~backend_ready /\ shutdown_pc = "stopped"

\* C37: once shutdown has cancelled the pump, a queued challenge without a
\* worker (still in Pending, or dequeued and held by the pump while it waited
\* for a permit) is never launched, re-queued or rejected: it gets no worker,
\* the queue does not change, its promise stays pending, its handler keeps
\* waiting, and the drain of Active does not await it
C37_StrandedAfterShutdown ==
  [][\A e \in ShutdownChallenges :
       (pump_pc = "cancelled" /\ Waiting(e) /\ fut[e].state = "pending") =>
         /\ ~Launched(e)'
         /\ pending_requests_queue' = pending_requests_queue
         /\ fut'[e].state = "pending"
         /\ hpc'[e] = "await_future"
         /\ e \notin drain_set']_vars

\* the handlers inside `async with request_semaphore` and the waiters that
\* release() has handed a permit and that have not resumed yet
PermitHolders ==
  Cardinality({c \in Challenges : hpc[c] = "await_task"})
    + Cardinality({i \in 1..Len(request_semaphore.waiters) :
                     request_semaphore.waiters[i].woken})
Running == {c \in Challenges : wpc[c] \in {"created", "infer"}}

\* C39: permits are conserved: the free permits are between 0 and N, and
\* together with the permits held by handlers and by woken waiters (the pump
\* among them) they are N, whether workers fail or handlers are cancelled;
\* so with no holder the free permits are N; with no worker running, Active
\* is empty
C39_PermitsConserved ==
  /\ request_semaphore.value \in 0..N
  /\ request_semaphore.value + PermitHolders = N
  /\ Running = {} => active_requests = {}
\* after a handler was cancelled and a worker failed, nothing holds a permit
\* and all N are free
C39_Witness ==
  /\ \E c \in Challenges : hpc[c] = "cancelled" /\ wpc[c] = "cancelled"
  /\ \E c \in Challenges : Completed(c) /\ wres[c].status = 500
  /\ PermitHolders = 0
  /\ request_semaphore.value = N
  /\ active_requests = {}
====
